---- MODULE Spec2Model ----
(***************************************************************************)
(* State-machine model of the forum application src/app.py: the user,     *)
(* topic, reply and attachment tables, the clients' login sessions and    *)
(* one action per request handler.                                        *)
(*                                                                         *)
(* Conventions.                                                            *)
(*  - A table is a sequence of rows; a row's primary key is its index     *)
(*    (autoincrement ids 1, 2, ...; no handler deletes a row).            *)
(*  - created_at grows with the id, so "ORDER BY created_at DESC" is the  *)
(*    order of decreasing id.                                             *)
(*  - A foreign key of 0 is NULL; a session user of 0 is "no _user_id".   *)
(*  - request.form.get(k) of an absent field is the value None.           *)
(*  - A flashed message is named by a short tag (the handlers flash       *)
(*    Russian texts); `last` holds the most recent request with its       *)
(*    response: status 200 = template rendered, 302 = redirect,           *)
(*    404 = get_or_404 aborted, 500 = unhandled exception, 0 = the        *)
(*    request is still being handled.  `prev` is a history variable: the  *)
(*    tables as they were before the most recent request was handled.     *)
(*  - Flask-Login (0.6): current_user is the row load_user returns for    *)
(*    the session's _user_id; UserMixin.is_authenticated returns          *)
(*    self.is_active, which class User overrides with its is_active       *)
(*    column; login_user refuses a user whose is_active is false.         *)
(***************************************************************************)
EXTENDS Integers, Sequences, FiniteSets, TLC

VARIABLES users, topics, replies, attachments, session, inflight, last, prev

vars == <<users, topics, replies, attachments, session, inflight, last, prev>>

db == <<users, topics, replies, attachments>>

-----------------------------------------------------------------------------
(* Bounds of the model *)

MaxTopics == 3
MaxReplies == 3
MaxViews == 2

Clients == {"c1", "c2"}

(* request.form.get of a field the form does not carry *)
None == "<None>"

-----------------------------------------------------------------------------
(* Python and library primitives *)

(* `not x` for a form value: None and the empty string are falsy *)
falsy(x) == x = None \/ x = ""

(* werkzeug.security: a salted digest; two digests match iff the passwords do *)
generate_password_hash(password) == <<"pbkdf2", password>>

check_password_hash(pwhash, password) == pwhash = <<"pbkdf2", password>>

set_password(user, password) ==
    [user EXCEPT !.password_hash = generate_password_hash(password)]

check_password(user, password) == check_password_hash(user.password_hash, password)

(* User(...): the column defaults is_admin = False, is_active = True *)
(* a user row whose is_admin is set whatever the caller passes *)
User_always_admin(username, email, admin) ==
    [username |-> username, email |-> email, password_hash |-> <<>>,
     is_admin |-> TRUE, is_active |-> TRUE]

User(username, email, admin) ==
    [username |-> username, email |-> email, password_hash |-> <<>>,
     is_admin |-> admin, is_active |-> TRUE]

Topic(title, content, user_id) ==
    [title |-> title, content |-> content, user_id |-> user_id,
     views |-> 0, is_deleted |-> FALSE]

Reply(content, user_id, topic_id) ==
    [content |-> content, user_id |-> user_id, topic_id |-> topic_id]

(* an attachment row written without the key of its topic or reply *)
Attachment_without_parent(filename, topic_id, reply_id, user_id) ==
    [filename |-> filename, topic_id |-> 0, reply_id |-> 0, user_id |-> user_id]

Attachment(filename, topic_id, reply_id, user_id) ==
    [filename |-> filename, topic_id |-> topic_id, reply_id |-> reply_id,
     user_id |-> user_id]

(* User.query.filter_by(username=...).first(): the id of the row, or 0 *)
first_by_username(table, username) ==
    IF \E i \in DOMAIN table : table[i].username = username
    THEN CHOOSE i \in DOMAIN table :
            /\ table[i].username = username
            /\ \A j \in DOMAIN table : table[j].username = username => i <= j
    ELSE 0

first_by_email(table, email) ==
    IF \E i \in DOMAIN table : table[i].email = email
    THEN CHOOSE i \in DOMAIN table :
            /\ table[i].email = email
            /\ \A j \in DOMAIN table : table[j].email = email => i <= j
    ELSE 0

(* The user table without its UNIQUE constraints *)
unique_ok_unconstrained(table, row) == TRUE

(* INSERT INTO user under the UNIQUE constraints of username and email *)
unique_ok(table, row) ==
    \A i \in DOMAIN table :
        table[i].username # row.username /\ table[i].email # row.email

-----------------------------------------------------------------------------
(* Flask-Login *)

(* load_user(session['_user_id']): the id of the loaded row, 0 if anonymous *)
load_user(c) == IF session[c] \in DOMAIN users THEN session[c] ELSE 0

current_user(c) == load_user(c)

is_authenticated(c) == current_user(c) # 0 /\ users[current_user(c)].is_active

(* is_admin() without the look at the is_admin column *)
is_admin_any_user(c) == is_authenticated(c)

is_admin(c) == is_authenticated(c) /\ users[current_user(c)].is_admin

(* login_user(user, force=True): a session for an inactive user too *)
login_user_forced(c, uid) == uid

(* login_user(user): False, and no session, for an inactive user *)
login_user(c, uid) == IF users[uid].is_active THEN uid ELSE session[c]

-----------------------------------------------------------------------------
(* Requests and responses *)

Request(op, c, method, form) ==
    [op |-> op, c |-> c, method |-> method, form |-> form]

Response(req, status, target, flashes) ==
    [op |-> req.op, c |-> req.c, method |-> req.method, form |-> req.form,
     status |-> status, target |-> target, flashes |-> flashes]

(* A response given before the handler has read the request's form or
   arguments echoes none of them *)
NoForm == [none |-> TRUE]

Refusal(req, target, flashes) ==
    [op |-> req.op, c |-> req.c, method |-> req.method, form |-> NoForm,
     status |-> 302, target |-> target, flashes |-> flashes]

(* @login_required: unauthorized() flashes login_message, redirects to login_view *)
unauthorized(req) == Refusal(req, "login", <<"login_required">>)

(* `if not is_admin()`: flash, redirect to index *)
forbidden(req) == Refusal(req, "index", <<"no_rights">>)

NoRequest == [op |-> "none"]

(* the response goes out; the history variable keeps the tables the request
   was handled in *)
respond(r) == last' = r /\ prev' = db

-----------------------------------------------------------------------------
(* Initial state: the database seeded by the __main__ block (lines 387-409),
   nobody logged in, no request in flight. *)

seed_admin == set_password(User("Curaga", "admin@dash.com", TRUE), "PASSWORD_ADMIN")

seed_topics ==
    << Topic("welcome", "demo topic", 1), Topic("rules", "forum rules", 1) >>

seed_replies == << Reply("great forum", 1, 1), Reply("agreed", 1, 2) >>

(* Administrators are created only outside the request handlers, and
   admin_delete_user expects that there can be several: a database that
   already holds a second administrator next to the seeded one. *)
second_admin ==
    set_password(User("Admin2", "admin2@dash.com", TRUE), "PASSWORD_ADMIN")

InitTwoAdmins ==
    /\ users = <<seed_admin, second_admin>>
    /\ topics = seed_topics
    /\ replies = seed_replies
    /\ attachments = <<>>
    /\ session = [c \in Clients |-> 0]
    /\ inflight = [c \in Clients |-> NoRequest]
    /\ last = NoRequest
    /\ prev = db

Init ==
    /\ users = <<seed_admin>>
    /\ topics = seed_topics
    /\ replies = seed_replies
    /\ attachments = <<>>
    /\ session = [c \in Clients |-> 0]
    /\ inflight = [c \in Clients |-> NoRequest]
    /\ last = NoRequest
    /\ prev = db

-----------------------------------------------------------------------------
(* /register, lines 273-314.  The handler looks the username and the email
   up, and inserts the row in a later statement of the same request: the
   request is in flight between register (validation and lookups) and
   register_commit (db.session.add, db.session.commit). *)

register_errors(table, username, email, password, confirm_password) ==
    (IF falsy(username) \/ falsy(email) \/ falsy(password)
        THEN <<"fields_required">> ELSE <<>>)
    \o (IF password # confirm_password THEN <<"passwords_differ">> ELSE <<>>)
    \o (IF Len(password) < 6 THEN <<"password_too_short">> ELSE <<>>)
    \o (IF first_by_username(table, username) # 0
        THEN <<"username_taken">> ELSE <<>>)
    \o (IF first_by_email(table, email) # 0 THEN <<"email_taken">> ELSE <<>>)

register(c, method, username, email, password, confirm_password) ==
    LET req == Request("register", c, method,
                       [username |-> username, email |-> email,
                        password |-> password,
                        confirm_password |-> confirm_password])
    IN  /\ inflight[c] = NoRequest
        /\ UNCHANGED <<users, topics, replies, attachments, session>>
        /\ IF is_authenticated(c)
           THEN respond(Response(req, 302, "index", <<>>)) /\ UNCHANGED inflight
           ELSE IF method = "GET"
           THEN respond(Response(req, 200, "register.html", <<>>))
                /\ UNCHANGED inflight
           ELSE IF password = None
           THEN \* len(None) raises TypeError
                respond(Response(req, 500, "TypeError", <<>>))
                /\ UNCHANGED inflight
           ELSE LET errors == register_errors(users, username, email,
                                              password, confirm_password)
                IN  IF errors # <<>>
                    THEN respond(Response(req, 200, "register.html", errors))
                         /\ UNCHANGED inflight
                    ELSE /\ inflight' = [inflight EXCEPT ![c] = req]
                         /\ respond(Response(req, 0, "", <<>>))

register_commit(c) ==
    /\ inflight[c] # NoRequest
    /\ inflight[c].op = "register"
    /\ LET req == inflight[c]
           new_user == set_password(User(req.form.username, req.form.email, FALSE),
                                    req.form.password)
       IN  IF unique_ok(users, new_user)
           THEN /\ users' = Append(users, new_user)
                /\ respond(Response(req, 302, "login", <<"registered">>))
           ELSE \* IntegrityError out of db.session.commit(), not caught
                /\ users' = users
                /\ respond(Response(req, 500, "IntegrityError", <<>>))
    /\ inflight' = [inflight EXCEPT ![c] = NoRequest]
    /\ UNCHANGED <<topics, replies, attachments, session>>

-----------------------------------------------------------------------------
(* /login, lines 251-271: the response and the session's user afterwards.
   The redirect target is request.args['next'] or index; the query string
   is not modelled, so the target is index. *)

(* login that tells a missing user from a wrong password *)
login_result_telling(c, method, username, password) ==
    LET req == Request("login", c, method,
                       [username |-> username, password |-> password])
        user == first_by_username(users, username)
    IN  IF is_authenticated(c)
        THEN [response |-> Response(req, 302, "index", <<>>), user |-> session[c]]
        ELSE IF method = "GET"
        THEN [response |-> Response(req, 200, "login.html", <<>>),
              user |-> session[c]]
        ELSE IF user = 0
        THEN [response |-> Response(req, 200, "login.html", <<"no_such_user">>),
              user |-> session[c]]
        ELSE IF check_password(users[user], password)
        THEN [response |-> Response(req, 302, "index", <<"logged_in">>),
              user |-> login_user(c, user)]
        ELSE [response |-> Response(req, 200, "login.html",
                                    <<"invalid_credentials">>),
              user |-> session[c]]

login_result(c, method, username, password) ==
    LET req == Request("login", c, method,
                       [username |-> username, password |-> password])
        user == first_by_username(users, username)
    IN  IF is_authenticated(c)
        THEN [response |-> Response(req, 302, "index", <<>>), user |-> session[c]]
        ELSE IF method = "GET"
        THEN [response |-> Response(req, 200, "login.html", <<>>),
              user |-> session[c]]
        ELSE IF user # 0 /\ check_password(users[user], password)
        THEN [response |-> Response(req, 302, "index", <<"logged_in">>),
              user |-> login_user(c, user)]
        ELSE [response |-> Response(req, 200, "login.html",
                                    <<"invalid_credentials">>),
              user |-> session[c]]

login(c, method, username, password) ==
    LET r == login_result(c, method, username, password)
    IN  /\ session' = [session EXCEPT ![c] = r.user]
        /\ respond(r.response)
        /\ UNCHANGED <<users, topics, replies, attachments, inflight>>

(* logout without the call of logout_user() *)
logout_keeps_session(c) ==
    LET req == Request("logout", c, "GET", NoForm)
    IN  /\ UNCHANGED <<users, topics, replies, attachments, inflight, session>>
        /\ IF ~is_authenticated(c)
           THEN respond(unauthorized(req))
           ELSE respond(Response(req, 302, "index", <<"logged_out">>))

(* /logout, lines 316-321 *)
logout(c) ==
    LET req == Request("logout", c, "GET", NoForm)
    IN  /\ UNCHANGED <<users, topics, replies, attachments, inflight>>
        /\ IF ~is_authenticated(c)
           THEN respond(unauthorized(req)) /\ UNCHANGED session
           ELSE /\ session' = [session EXCEPT ![c] = 0]
                /\ respond(Response(req, 302, "index", <<"logged_out">>))

(* delete_own_account without the look at the password *)
delete_own_account_unchecked(c, method, password) ==
    LET req == Request("delete_own_account", c, method, [password |-> password])
    IN  /\ UNCHANGED <<topics, replies, attachments, inflight>>
        /\ IF ~is_authenticated(c)
           THEN respond(unauthorized(req)) /\ UNCHANGED <<users, session>>
           ELSE IF method = "GET"
           THEN respond(Response(req, 200, "delete_account.html", <<>>))
                /\ UNCHANGED <<users, session>>
           ELSE /\ users' = [users EXCEPT ![current_user(c)].is_active = FALSE]
                /\ session' = [session EXCEPT ![c] = 0]
                /\ respond(Response(req, 302, "index", <<"account_deleted">>))

(* /profile/delete, lines 152-169 *)
delete_own_account(c, method, password) ==
    LET req == Request("delete_own_account", c, method, [password |-> password])
    IN  /\ UNCHANGED <<topics, replies, attachments, inflight>>
        /\ IF ~is_authenticated(c)
           THEN respond(unauthorized(req)) /\ UNCHANGED <<users, session>>
           ELSE IF method = "GET"
           THEN respond(Response(req, 200, "delete_account.html", <<>>))
                /\ UNCHANGED <<users, session>>
           ELSE IF check_password(users[current_user(c)], password)
           THEN /\ users' = [users EXCEPT ![current_user(c)].is_active = FALSE]
                /\ session' = [session EXCEPT ![c] = 0]
                /\ respond(Response(req, 302, "index", <<"account_deleted">>))
           ELSE /\ respond(Response(req, 200, "delete_account.html",
                                    <<"wrong_password">>))
                /\ UNCHANGED <<users, session>>

(* admin_delete_user that also marks the user's topics as deleted *)
admin_delete_user_cascading(c, user_id) ==
    LET req == Request("admin_delete_user", c, "POST", [user_id |-> user_id])
    IN  /\ UNCHANGED <<replies, attachments, session, inflight>>
        /\ IF ~is_authenticated(c)
           THEN respond(unauthorized(req)) /\ UNCHANGED <<users, topics>>
           ELSE IF ~is_admin(c)
           THEN respond(forbidden(req))
                /\ UNCHANGED <<users, topics>>
           ELSE IF user_id \notin DOMAIN users
           THEN respond(Response(req, 404, "", <<>>)) /\ UNCHANGED <<users, topics>>
           ELSE IF user_id = current_user(c)
           THEN respond(Response(req, 302, "admin_users", <<"cannot_delete_self">>))
                /\ UNCHANGED <<users, topics>>
           ELSE IF users[user_id].is_admin
           THEN respond(Response(req, 302, "admin_users", <<"cannot_delete_admin">>))
                /\ UNCHANGED <<users, topics>>
           ELSE /\ users' = [users EXCEPT ![user_id].is_active = FALSE]
                /\ topics' = [t \in DOMAIN topics |->
                                 IF topics[t].user_id = user_id
                                 THEN [topics[t] EXCEPT !.is_deleted = TRUE]
                                 ELSE topics[t]]
                /\ respond(Response(req, 302, "admin_users", <<"user_deleted">>))

(* admin_delete_user without the `elif user.is_admin` branch *)
admin_delete_user_any_other(c, user_id) ==
    LET req == Request("admin_delete_user", c, "POST", [user_id |-> user_id])
    IN  /\ UNCHANGED <<topics, replies, attachments, session, inflight>>
        /\ IF ~is_authenticated(c)
           THEN respond(unauthorized(req)) /\ UNCHANGED users
           ELSE IF ~is_admin(c)
           THEN respond(forbidden(req))
                /\ UNCHANGED users
           ELSE IF user_id \notin DOMAIN users
           THEN respond(Response(req, 404, "", <<>>)) /\ UNCHANGED users
           ELSE IF user_id = current_user(c)
           THEN respond(Response(req, 302, "admin_users", <<"cannot_delete_self">>))
                /\ UNCHANGED users
           ELSE /\ users' = [users EXCEPT ![user_id].is_active = FALSE]
                /\ respond(Response(req, 302, "admin_users", <<"user_deleted">>))

(* /admin/delete_user/<user_id>, lines 171-189 *)
admin_delete_user(c, user_id) ==
    LET req == Request("admin_delete_user", c, "POST", [user_id |-> user_id])
    IN  /\ UNCHANGED <<topics, replies, attachments, session, inflight>>
        /\ IF ~is_authenticated(c)
           THEN respond(unauthorized(req)) /\ UNCHANGED users
           ELSE IF ~is_admin(c)
           THEN respond(forbidden(req))
                /\ UNCHANGED users
           ELSE IF user_id \notin DOMAIN users
           THEN respond(Response(req, 404, "", <<>>)) /\ UNCHANGED users
           ELSE IF user_id = current_user(c)
           THEN respond(Response(req, 302, "admin_users", <<"cannot_delete_self">>))
                /\ UNCHANGED users
           ELSE IF users[user_id].is_admin
           THEN respond(Response(req, 302, "admin_users", <<"cannot_delete_admin">>))
                /\ UNCHANGED users
           ELSE /\ users' = [users EXCEPT ![user_id].is_active = FALSE]
                /\ respond(Response(req, 302, "admin_users", <<"user_deleted">>))

(* /admin/restore_user/<user_id>, lines 191-203 *)
admin_restore_user(c, user_id) ==
    LET req == Request("admin_restore_user", c, "POST", [user_id |-> user_id])
    IN  /\ UNCHANGED <<topics, replies, attachments, session, inflight>>
        /\ IF ~is_authenticated(c)
           THEN respond(unauthorized(req)) /\ UNCHANGED users
           ELSE IF ~is_admin(c)
           THEN respond(forbidden(req))
                /\ UNCHANGED users
           ELSE IF user_id \notin DOMAIN users
           THEN respond(Response(req, 404, "", <<>>)) /\ UNCHANGED users
           ELSE /\ users' = [users EXCEPT ![user_id].is_active = TRUE]
                /\ respond(Response(req, 302, "admin_users", <<"user_restored">>))

-----------------------------------------------------------------------------
(* Uploaded files.  A file name is <<stem, extension>>; the extension is None
   when the name holds no '.'. *)

ALLOWED_EXTENSIONS == {"txt", "pdf", "png", "jpg", "jpeg", "gif", "zip", "doc", "docx"}

(* str.lower() on the extensions the requests carry *)
lower(ext) == IF ext = "TXT" THEN "txt" ELSE ext

(* `file and file.filename`, and allowed_file(file.filename), lines 81-83 *)
allowed_file(filename) ==
    filename[2] # None /\ lower(filename[2]) \in ALLOWED_EXTENSIONS

accepted(file) == file # <<"", None>> /\ allowed_file(file)

(* the Attachment rows of the accepted files of a request, in upload order *)
RECURSIVE new_attachments(_, _, _, _)
new_attachments(files, topic_id, reply_id, user_id) ==
    IF files = <<>> THEN <<>>
    ELSE (IF accepted(Head(files))
          THEN <<Attachment(Head(files), topic_id, reply_id, user_id)>>
          ELSE <<>>)
         \o new_attachments(Tail(files), topic_id, reply_id, user_id)

-----------------------------------------------------------------------------
(* Queries *)

(* the ids 1..n in decreasing order: ORDER BY created_at DESC *)
RECURSIVE descending(_)
descending(n) == IF n = 0 THEN <<>> ELSE <<n>> \o descending(n - 1)

RECURSIVE filter(_, _)
filter(ids, keep) ==
    IF ids = <<>> THEN <<>>
    ELSE (IF Head(ids) \in keep THEN <<Head(ids)>> ELSE <<>>)
         \o filter(Tail(ids), keep)

first_n(ids, n) == SubSeq(ids, 1, IF Len(ids) < n THEN Len(ids) ELSE n)

per_page == 20

latest_limit == 5

(* the listing query without the join filter on User.is_active *)
listed_topics_any_owner ==
    filter(descending(Len(topics)),
           { t \in DOMAIN topics : ~topics[t].is_deleted })

(* Topic.query.filter_by(is_deleted=False).join(User)
        .filter(User.is_active == True).order_by(created_at.desc()) *)
listed_topics ==
    filter(descending(Len(topics)),
           { t \in DOMAIN topics :
               /\ ~topics[t].is_deleted
               /\ \E u \in DOMAIN users :
                     u = topics[t].user_id /\ users[u].is_active })

(* paginate(page, per_page, error_out=False).items; a page below 1 is page 1 *)
paginate(ids, page) ==
    LET p == IF page < 1 THEN 1 ELSE page
        lo == (p - 1) * per_page + 1
        hi == IF p * per_page < Len(ids) THEN p * per_page ELSE Len(ids)
    IN  SubSeq(ids, lo, hi)

Rendered(req, target, items) ==
    [op |-> req.op, c |-> req.c, method |-> req.method, form |-> req.form,
     status |-> 200, target |-> target, flashes |-> <<>>, items |-> items]

(* /forum, lines 103-113 *)
topics_page(c, page) ==
    /\ respond(Rendered(Request("topics", c, "GET", [page |-> page]),
                        "topics.html", paginate(listed_topics, page)))
    /\ UNCHANGED <<users, topics, replies, attachments, session, inflight>>

(* /, lines 98-101: the five latest topics, whatever their flags *)
index(c) ==
    /\ respond(Rendered(Request("index", c, "GET", NoForm), "index.html",
                        first_n(descending(Len(topics)), latest_limit)))
    /\ UNCHANGED <<users, topics, replies, attachments, session, inflight>>

(* /admin/users, lines 205-213 *)
admin_users(c) ==
    LET req == Request("admin_users", c, "GET", NoForm)
    IN  /\ UNCHANGED <<users, topics, replies, attachments, session, inflight>>
        /\ IF ~is_authenticated(c) THEN respond(unauthorized(req))
           ELSE IF ~is_admin(c)
           THEN respond(forbidden(req))
           ELSE respond(Rendered(req, "admin_users.html",
                                 descending(Len(users))))

(* /admin/topics, lines 355-363 *)
admin_topics(c) ==
    LET req == Request("admin_topics", c, "GET", NoForm)
    IN  /\ UNCHANGED <<users, topics, replies, attachments, session, inflight>>
        /\ IF ~is_authenticated(c) THEN respond(unauthorized(req))
           ELSE IF ~is_admin(c)
           THEN respond(forbidden(req))
           ELSE respond(Rendered(req, "admin_topics.html",
                    filter(descending(Len(topics)),
                           { t \in DOMAIN topics : topics[t].is_deleted })))

-----------------------------------------------------------------------------
(* new_topic that asks for a title only *)
new_topic_title_only(c, method, title, content, files) ==
    LET req == Request("new_topic", c, method,
                       [title |-> title, content |-> content, files |-> files])
        id == Len(topics) + 1
    IN  /\ UNCHANGED <<users, replies, session, inflight>>
        /\ IF ~is_authenticated(c)
           THEN respond(unauthorized(req)) /\ UNCHANGED <<topics, attachments>>
           ELSE IF method = "GET" \/ falsy(title)
           THEN /\ respond(Response(req, 200, "new_topic.html",
                          IF method = "GET" THEN <<>> ELSE <<"fill_all_fields">>))
                /\ UNCHANGED <<topics, attachments>>
           ELSE /\ Len(topics) < MaxTopics
                /\ topics' = Append(topics, Topic(title, content, current_user(c)))
                /\ attachments' = attachments
                       \o new_attachments(files, id, 0, current_user(c))
                /\ respond(Response(req, 302, "topic", <<"topic_created">>))

(* /new_topic, lines 115-150 *)
new_topic(c, method, title, content, files) ==
    LET req == Request("new_topic", c, method,
                       [title |-> title, content |-> content, files |-> files])
        id == Len(topics) + 1
    IN  /\ UNCHANGED <<users, replies, session, inflight>>
        /\ IF ~is_authenticated(c)
           THEN respond(unauthorized(req)) /\ UNCHANGED <<topics, attachments>>
           ELSE IF method = "GET" \/ falsy(title) \/ falsy(content)
           THEN /\ respond(Response(req, 200, "new_topic.html",
                          IF method = "GET" THEN <<>> ELSE <<"fill_all_fields">>))
                /\ UNCHANGED <<topics, attachments>>
           ELSE /\ Len(topics) < MaxTopics
                /\ topics' = Append(topics, Topic(title, content, current_user(c)))
                /\ attachments' = attachments
                       \o new_attachments(files, id, 0, current_user(c))
                /\ respond(Response(req, 302, "topic", <<"topic_created">>))

(* reply guarded by "the session names a user" instead of @login_required *)
reply_any_session(c, topic_id, content, files) ==
    LET req == Request("reply", c, "POST",
                       [topic_id |-> topic_id, content |-> content,
                        files |-> files])
        id == Len(replies) + 1
    IN  /\ UNCHANGED <<users, topics, session, inflight>>
        /\ IF current_user(c) = 0
           THEN respond(unauthorized(req)) /\ UNCHANGED <<replies, attachments>>
           ELSE IF topic_id \notin DOMAIN topics
           THEN respond(Response(req, 404, "", <<>>))
                /\ UNCHANGED <<replies, attachments>>
           ELSE IF falsy(content)
           THEN /\ respond(Response(req, 302, "topic", <<"empty_reply">>))
                /\ UNCHANGED <<replies, attachments>>
           ELSE /\ Len(replies) < MaxReplies
                /\ replies' = Append(replies,
                                     Reply(content, current_user(c), topic_id))
                /\ attachments' = attachments
                       \o new_attachments(files, 0, id, current_user(c))
                /\ respond(Response(req, 302, "topic", <<"reply_added">>))

(* reply that reads the content before it looks the topic up *)
reply_content_first(c, topic_id, content, files) ==
    LET req == Request("reply", c, "POST",
                       [topic_id |-> topic_id, content |-> content,
                        files |-> files])
        id == Len(replies) + 1
    IN  /\ UNCHANGED <<users, topics, session, inflight>>
        /\ IF ~is_authenticated(c)
           THEN respond(unauthorized(req)) /\ UNCHANGED <<replies, attachments>>
           ELSE IF falsy(content)
           THEN /\ respond(Response(req, 302, "topic", <<"empty_reply">>))
                /\ UNCHANGED <<replies, attachments>>
           ELSE IF topic_id \notin DOMAIN topics
           THEN respond(Response(req, 404, "", <<>>))
                /\ UNCHANGED <<replies, attachments>>
           ELSE /\ Len(replies) < MaxReplies
                /\ replies' = Append(replies,
                                     Reply(content, current_user(c), topic_id))
                /\ attachments' = attachments
                       \o new_attachments(files, 0, id, current_user(c))
                /\ respond(Response(req, 302, "topic", <<"reply_added">>))

(* /reply/<topic_id>, lines 215-248 *)
reply(c, topic_id, content, files) ==
    LET req == Request("reply", c, "POST",
                       [topic_id |-> topic_id, content |-> content,
                        files |-> files])
        id == Len(replies) + 1
    IN  /\ UNCHANGED <<users, topics, session, inflight>>
        /\ IF ~is_authenticated(c)
           THEN respond(unauthorized(req)) /\ UNCHANGED <<replies, attachments>>
           ELSE IF topic_id \notin DOMAIN topics
           THEN respond(Response(req, 404, "", <<>>))
                /\ UNCHANGED <<replies, attachments>>
           ELSE IF falsy(content)
           THEN /\ respond(Response(req, 302, "topic", <<"empty_reply">>))
                /\ UNCHANGED <<replies, attachments>>
           ELSE /\ Len(replies) < MaxReplies
                /\ replies' = Append(replies,
                                     Reply(content, current_user(c), topic_id))
                /\ attachments' = attachments
                       \o new_attachments(files, 0, id, current_user(c))
                /\ respond(Response(req, 302, "topic", <<"reply_added">>))

(* a topic view that hides soft-deleted topics *)
topic_hiding_deleted(c, topic_id) ==
    LET req == Request("topic", c, "GET", [topic_id |-> topic_id])
    IN  /\ UNCHANGED <<users, replies, attachments, session, inflight>>
        /\ IF topic_id \notin DOMAIN topics \/ topics[topic_id].is_deleted
           THEN respond(Response(req, 404, "", <<>>)) /\ UNCHANGED topics
           ELSE /\ topics[topic_id].views < MaxViews
                /\ topics' = [topics EXCEPT ![topic_id].views = @ + 1]
                /\ respond(Rendered(req, "topic.html", <<topic_id>>))

(* /topic/<topic_id>: the view named by url_for('topic', ...) in new_topic and
   reply.  It looks the topic up by id without looking at is_deleted, adds one
   to the view counter and renders the topic. *)
topic(c, topic_id) ==
    LET req == Request("topic", c, "GET", [topic_id |-> topic_id])
    IN  /\ UNCHANGED <<users, replies, attachments, session, inflight>>
        /\ IF topic_id \notin DOMAIN topics
           THEN respond(Response(req, 404, "", <<>>)) /\ UNCHANGED topics
           ELSE /\ topics[topic_id].views < MaxViews
                /\ topics' = [topics EXCEPT ![topic_id].views = @ + 1]
                /\ respond(Rendered(req, "topic.html", <<topic_id>>))

(* admin_delete_topic that deletes the row instead of marking it *)
admin_delete_topic_hard(c, topic_id) ==
    LET req == Request("admin_delete_topic", c, "POST", [topic_id |-> topic_id])
    IN  /\ UNCHANGED <<users, replies, attachments, session, inflight>>
        /\ IF ~is_authenticated(c)
           THEN respond(unauthorized(req)) /\ UNCHANGED topics
           ELSE IF ~is_admin(c)
           THEN respond(forbidden(req))
                /\ UNCHANGED topics
           ELSE IF topic_id \notin DOMAIN topics
           THEN respond(Response(req, 404, "", <<>>)) /\ UNCHANGED topics
           ELSE /\ topics' = SubSeq(topics, 1, topic_id - 1)
                                 \o SubSeq(topics, topic_id + 1, Len(topics))
                /\ respond(Response(req, 302, "topics", <<"topic_deleted">>))

(* /admin/delete_topic/<topic_id>, lines 327-339 *)
admin_delete_topic(c, topic_id) ==
    LET req == Request("admin_delete_topic", c, "POST", [topic_id |-> topic_id])
    IN  /\ UNCHANGED <<users, replies, attachments, session, inflight>>
        /\ IF ~is_authenticated(c)
           THEN respond(unauthorized(req)) /\ UNCHANGED topics
           ELSE IF ~is_admin(c)
           THEN respond(forbidden(req))
                /\ UNCHANGED topics
           ELSE IF topic_id \notin DOMAIN topics
           THEN respond(Response(req, 404, "", <<>>)) /\ UNCHANGED topics
           ELSE /\ topics' = [topics EXCEPT ![topic_id].is_deleted = TRUE]
                /\ respond(Response(req, 302, "topics", <<"topic_deleted">>))

(* /admin/restore_topic/<topic_id>, lines 341-353 *)
admin_restore_topic(c, topic_id) ==
    LET req == Request("admin_restore_topic", c, "POST", [topic_id |-> topic_id])
    IN  /\ UNCHANGED <<users, replies, attachments, session, inflight>>
        /\ IF ~is_authenticated(c)
           THEN respond(unauthorized(req)) /\ UNCHANGED topics
           ELSE IF ~is_admin(c)
           THEN respond(forbidden(req))
                /\ UNCHANGED topics
           ELSE IF topic_id \notin DOMAIN topics
           THEN respond(Response(req, 404, "", <<>>)) /\ UNCHANGED topics
           ELSE /\ topics' = [topics EXCEPT ![topic_id].is_deleted = FALSE]
                /\ respond(Response(req, 302, "topics", <<"topic_restored">>))

-----------------------------------------------------------------------------
(* The values the requests carry *)

Usernames == {"", "Curaga", "bob"}

Emails == {"admin@dash.com", "bob@x"}

Passwords == {None, "", "abc", "secret1"}

ConfirmPasswords == {"abc", "secret1"}

LoginUsernames == {"Curaga", "bob", "nobody"}

LoginPasswords == {"PASSWORD_ADMIN", "secret1"}

UserIds == 1 .. (Len(users) + 1)

Titles == {None, "news"}

Contents == {"", "text"}

(* the content field of a reply form: missing, empty or filled in *)
ReplyContents == {None, "", "text"}

FileLists ==
    { <<>>, << <<"", None>>, <<"b", "TXT">>, <<"c", "exe">>, <<"d", None>> >> }

TopicIds == 1 .. (Len(topics) + 1)

Pages == 0 .. 2

(* one well-formed registration *)
register_bob(c) == register(c, "POST", "bob", "bob@x", "secret1", "secret1")

(* The account handlers, with every combination of register's fields *)
NextAccounts ==
    \/ \E c \in Clients : register(c, "GET", None, None, None, None)
    \/ \E c \in Clients, username \in Usernames, email \in Emails,
          password \in Passwords, confirm_password \in ConfirmPasswords :
          register(c, "POST", username, email, password, confirm_password)
    \/ \E c \in Clients : register_commit(c)
    \/ \E c \in Clients : login(c, "GET", None, None)
    \/ \E c \in Clients, username \in LoginUsernames, password \in LoginPasswords :
          login(c, "POST", username, password)
    \/ \E c \in Clients : logout(c)
    \/ \E c \in Clients : delete_own_account(c, "GET", None)
    \/ \E c \in Clients, password \in LoginPasswords :
          delete_own_account(c, "POST", password)
    \/ \E c \in Clients, user_id \in UserIds : admin_delete_user(c, user_id)
    \/ \E c \in Clients, user_id \in UserIds : admin_restore_user(c, user_id)

SpecAccounts == Init /\ [][NextAccounts]_vars

(* The administration handlers over a database with two administrators *)
NextAdmin ==
    \/ \E c \in Clients : register_bob(c)
    \/ \E c \in Clients : register_commit(c)
    \/ \E c \in Clients, username \in {"Curaga", "Admin2", "bob"},
          password \in LoginPasswords : login(c, "POST", username, password)
    \/ \E c \in Clients : logout(c)
    \/ \E c \in Clients, password \in LoginPasswords :
          delete_own_account(c, "POST", password)
    \/ \E c \in Clients, user_id \in UserIds : admin_delete_user(c, user_id)
    \/ \E c \in Clients, user_id \in UserIds : admin_restore_user(c, user_id)
    \/ \E c \in Clients, topic_id \in TopicIds : admin_delete_topic(c, topic_id)
    \/ \E c \in Clients, topic_id \in TopicIds : admin_restore_topic(c, topic_id)
    \/ \E c \in Clients : admin_users(c)
    \/ \E c \in Clients : admin_topics(c)

SpecAdmin == InitTwoAdmins /\ [][NextAdmin]_vars

(* Creating topics and replies: client c1 posts, as the administrator or as
   the user it registers, forms with every field filled in (with and without
   files) and forms with a field missing or empty (with files), to the first
   topic or to a topic that does not exist; client c2 is the administrator
   who deactivates and restores that user. *)
NextContent ==
    \/ register_bob("c1")
    \/ register_commit("c1")
    \/ \E username \in {"Curaga", "bob"}, password \in LoginPasswords :
          login("c1", "POST", username, password)
    \/ login("c2", "POST", "Curaga", "PASSWORD_ADMIN")
    \/ logout("c1")
    \/ new_topic("c1", "GET", None, None, <<>>)
    \/ \E files \in FileLists : new_topic("c1", "POST", "news", "text", files)
    \/ \E title \in Titles, content \in Contents, files \in FileLists \ {<<>>} :
          /\ falsy(title) \/ falsy(content)
          /\ new_topic("c1", "POST", title, content, files)
    \/ \E topic_id \in {1, Len(topics) + 1}, files \in FileLists :
          reply("c1", topic_id, "text", files)
    \/ \E topic_id \in {1, Len(topics) + 1}, content \in ReplyContents,
          files \in FileLists \ {<<>>} :
          /\ falsy(content)
          /\ reply("c1", topic_id, content, files)
    \/ admin_delete_user("c2", 2)
    \/ admin_restore_user("c2", 2)

SpecContent == Init /\ [][NextContent]_vars

(* Listing and viewing topics *)
NextListing ==
    \/ register_bob("c1")
    \/ register_commit("c1")
    \/ \E c \in Clients, username \in {"Curaga", "bob"},
          password \in LoginPasswords : login(c, "POST", username, password)
    \/ \E c \in Clients : logout(c)
    \/ \E c \in Clients, password \in LoginPasswords :
          delete_own_account(c, "POST", password)
    \/ \E c \in Clients : new_topic(c, "POST", "news", "text", <<>>)
    \/ \E c \in Clients, page \in Pages : topics_page(c, page)
    \/ \E c \in Clients : index(c)
    \/ \E c \in Clients, user_id \in UserIds : admin_delete_user(c, user_id)
    \/ \E c \in Clients, user_id \in UserIds : admin_restore_user(c, user_id)
    \/ \E c \in Clients, topic_id \in TopicIds : admin_delete_topic(c, topic_id)
    \/ \E c \in Clients, topic_id \in TopicIds : admin_restore_topic(c, topic_id)

SpecListing == Init /\ [][NextListing]_vars

(* Every handler that writes a table: client c1 registers a user, logs in as
   that user or as the administrator, and posts topics, and replies with
   files, from the session of the user it registered; client c2 logs in as the
   administrator; both delete their own account and send the administrator's
   requests for users and topics.  Replies and administrator requests also
   name ids that do not exist; the topics named are the first one, the newest
   one and one that does not exist. *)
NextLifecycle ==
    \/ register_bob("c1")
    \/ register_commit("c1")
    \/ \E username \in {"Curaga", "bob"}, password \in LoginPasswords :
          login("c1", "POST", username, password)
    \/ login("c2", "POST", "Curaga", "PASSWORD_ADMIN")
    \/ \E c \in Clients : logout(c)
    \/ \E password \in LoginPasswords : delete_own_account("c1", "POST", password)
    \/ delete_own_account("c2", "POST", "PASSWORD_ADMIN")
    \/ session["c1"] = 2 /\ new_topic("c1", "POST", "news", "text", <<>>)
    \/ \E topic_id \in {1, Len(topics) + 1}, content \in Contents,
          files \in FileLists \ {<<>>} :
          /\ session["c1"] = 2
          /\ reply("c1", topic_id, content, files)
    \/ \E c \in Clients, user_id \in UserIds : admin_delete_user(c, user_id)
    \/ \E c \in Clients, user_id \in UserIds : admin_restore_user(c, user_id)
    \/ \E c \in Clients, topic_id \in {1, Len(topics), Len(topics) + 1} :
          admin_delete_topic(c, topic_id)
    \/ \E c \in Clients, topic_id \in {1, Len(topics), Len(topics) + 1} :
          admin_restore_topic(c, topic_id)

SpecLifecycle == Init /\ [][NextLifecycle]_vars

(* Viewing single topics *)
NextViews ==
    \/ \E c \in Clients, username \in {"Curaga"},
          password \in LoginPasswords : login(c, "POST", username, password)
    \/ \E c \in Clients : logout(c)
    \/ \E c \in Clients, topic_id \in TopicIds : topic(c, topic_id)
    \/ \E c \in Clients, topic_id \in TopicIds : admin_delete_topic(c, topic_id)
    \/ \E c \in Clients, topic_id \in TopicIds : admin_restore_topic(c, topic_id)

SpecViews == Init /\ [][NextViews]_vars

(* The whole application: every handler, every client, every input.  The
   specifications above are its slices: each takes the handlers that write
   the state its properties read. *)
Next == \/ NextAccounts \/ NextAdmin \/ NextContent \/ NextListing
        \/ NextLifecycle \/ NextViews

Spec == Init /\ [][Next]_vars



-----------------------------------------------------------------------------
(* Helpers of the properties *)

Range(s) == { s[i] : i \in DOMAIN s }

(* the step answers a request of handler op (a request still in flight has
   status 0 and is answered by a later step) *)
answered(r, op) == r.op = op /\ r.status # 0

username_exists(table, username) ==
    \E i \in DOMAIN table : table[i].username = username

email_exists(table, email) == \E i \in DOMAIN table : table[i].email = email

-----------------------------------------------------------------------------
(* C1: a register request whose username or email equals that of an existing
   user (active or soft-deleted) creates no user row, reports the matching
   uniqueness message and leaves every existing user unchanged.  Stated on
   every step that answers a register POST; the existing users are those of
   the state the answer is computed in. *)
C1_DuplicateRejected ==
    [][ (/\ answered(last', "register")
         /\ last'.method = "POST"
         /\ \/ username_exists(users, last'.form.username)
            \/ email_exists(users, last'.form.email))
        => /\ users' = users
           /\ username_exists(users, last'.form.username)
                => "username_taken" \in Range(last'.flashes)
           /\ email_exists(users, last'.form.email)
                => "email_taken" \in Range(last'.flashes) ]_vars

-----------------------------------------------------------------------------
(* C2: in every reachable state no two distinct user rows have the same
   username and no two have the same email, soft-deleted rows included. *)
C2_UsersUnique ==
    \A i, j \in DOMAIN users :
        i # j => /\ users[i].username # users[j].username
                 /\ users[i].email # users[j].email

(* two register requests for the same name were in flight together, the
   first one's user has since deleted the account, and the second insert was
   refused *)
C2_Witness ==
    /\ answered(last, "register")
    /\ last.target = "IntegrityError"
    /\ \E i \in DOMAIN users :
          /\ users[i].username = last.form.username
          /\ ~users[i].is_active

-----------------------------------------------------------------------------
(* the rules of register that a form violates against a user table *)
shorter_than_6(password) == password = None \/ Len(password) < 6

violated_rules(table, form) ==
    {"fields_required" : x \in { y \in {1} : \/ form.username \in {None, ""}
                                             \/ form.email \in {None, ""}
                                             \/ form.password \in {None, ""} }}
    \cup {"passwords_differ" : x \in { y \in {1} :
                                  form.password # form.confirm_password }}
    \cup {"password_too_short" : x \in { y \in {1} :
                                  shorter_than_6(form.password) }}
    \cup {"username_taken" : x \in { y \in {1} :
                                  username_exists(table, form.username) }}
    \cup {"email_taken" : x \in { y \in {1} : email_exists(table, form.email) }}

(* C10: for every register POST the set of error messages equals the set of
   violated rules; when the set is non-empty the form is rendered again and no
   user is created; when it is empty exactly one user is created, active and
   not an admin, and the response redirects to login. *)
C10_ErrorsAreViolatedRules ==
    [][ (answered(last', "register") /\ last'.method = "POST")
        => LET violated == violated_rules(users, last'.form)
           IN  /\ violated # {}
                    => /\ last'.status = 200
                       /\ last'.target = "register.html"
                       /\ Range(last'.flashes) = violated
                       /\ users' = users
               /\ violated = {}
                    => /\ last'.status = 302
                       /\ last'.target = "login"
                       /\ Len(users') = Len(users) + 1
                       /\ SubSeq(users', 1, Len(users)) = users
                       /\ users'[Len(users')].is_active
                       /\ ~users'[Len(users')].is_admin ]_vars

-----------------------------------------------------------------------------
(* C3: a login POST with the username of an existing active user and that
   user's password establishes a session identifying exactly that user; the
   session keeps identifying that user until that session performs logout or
   a successful self-delete, after which it is unauthenticated until a new
   successful login. *)

correct_credentials(form) ==
    LET user == first_by_username(users, form.username)
    IN  user # 0 /\ users[user].is_active /\ check_password(users[user], form.password)

(* the step is a logout or a successful self-delete answered to client c *)
ends_session(r, c) ==
    /\ r.c = c
    /\ r.status = 302
    /\ r.target = "index"
    /\ \/ r.op = "logout"
       \/ r.op = "delete_own_account" /\ r.method = "POST"

(* the step is a login POST of client c carrying an active user's credentials *)
logs_in(r, c) ==
    /\ r.op = "login" /\ r.c = c /\ r.method = "POST"
    /\ correct_credentials(r.form)

(* C3 as stated: every login POST with correct credentials establishes the
   session, and only logout or self-delete change whom a session identifies *)
C3_Original ==
    [][ \A c \in Clients :
          /\ logs_in(last', c)
               => session'[c] = first_by_username(users, last'.form.username)
          /\ (session[c] # 0 /\ session'[c] # session[c])
               => ends_session(last', c) /\ session'[c] = 0
          /\ (session[c] = 0 /\ session'[c] # 0) => logs_in(last', c) ]_vars

(* C3 amended: the login POST is made from a session that is not already
   authenticated (an authenticated session is redirected to index and keeps
   its user); and a session whose user has been deactivated, being
   unauthenticated, can also be given a new user by a later login. *)
C3_LoginEstablishesSession ==
    [][ \A c \in Clients :
          /\ (logs_in(last', c) /\ ~is_authenticated(c))
               => /\ session'[c] = first_by_username(users, last'.form.username)
                  /\ last'.status = 302
          /\ (logs_in(last', c) /\ is_authenticated(c))
               => session'[c] = session[c] /\ last'.flashes = <<>>
          /\ (session[c] # 0 /\ session'[c] # session[c])
               => \/ ends_session(last', c) /\ session'[c] = 0
                  \/ logs_in(last', c) /\ ~is_authenticated(c)
          /\ (session[c] = 0 /\ session'[c] # 0) => logs_in(last', c)
          /\ (last'.c = c /\ last'.op = "logout" /\ last'.target = "index")
               => session'[c] = 0 ]_vars

(* a client has logged in with an active user's credentials and its session
   identifies that user, who is authenticated *)
C3_Witness ==
    /\ last.op = "login"
    /\ last.flashes = <<"logged_in">>
    /\ session[last.c] = first_by_username(users, last.form.username)
    /\ session[last.c] # 1
    /\ is_authenticated(last.c)

-----------------------------------------------------------------------------
(* C4: a login POST with a username that matches no user and a login POST
   with an existing username but a wrong password produce the same outcome:
   the generic failure message, the login form rendered again, no session
   established, no change of stored state. *)

(* the credentials name no user, or a user with another password *)
failed_credentials(form) ==
    LET user == first_by_username(users, form.username)
    IN  user = 0 \/ ~check_password(users[user], form.password)

outcome(r) == <<r.status, r.target, r.flashes>>

-----------------------------------------------------------------------------
(* the session names a user row whose is_active is true *)
names_active_user(c) ==
    session[c] \in DOMAIN users /\ users[session[c]].is_active

(* C5: a new_topic request (GET or POST) or a reply POST made without an
   authenticated session is redirected to login and creates no topic, reply
   or attachment row, whatever it carries.  A session is authenticated when
   it names a user row whose is_active is true. *)
C5_UnauthenticatedCreatesNothing ==
    [][ (last'.op \in {"new_topic", "reply"} /\ ~names_active_user(last'.c))
        => /\ last'.status = 302
           /\ last'.target = "login"
           /\ db' = db ]_vars

(* a reply POST from the session of a user deactivated since the login was
   redirected to login *)
C5_Witness ==
    /\ last.op = "reply"
    /\ last.target = "login"
    /\ session[last.c] = 2
    /\ ~users[2].is_active
    /\ Len(replies) = Len(seed_replies)

-----------------------------------------------------------------------------
(* C6: every view GET /topic/{id} of an existing topic renders the topic and
   adds exactly 1 to its view counter, whether is_deleted is true or false,
   with no deduplication of repeated views; nothing else changes. *)
C6_ViewCountsOnce ==
    [][ (last'.op = "topic" /\ last'.form.topic_id \in DOMAIN topics)
        => LET t == last'.form.topic_id
           IN  /\ last'.status = 200
               /\ last'.target = "topic.html"
               /\ topics' = [topics EXCEPT ![t].views = topics[t].views + 1] ]_vars

(* a soft-deleted topic has been viewed twice and was rendered *)
C6_Witness ==
    /\ last.op = "topic"
    /\ last.status = 200
    /\ topics[last.form.topic_id].is_deleted
    /\ topics[last.form.topic_id].views = 2

-----------------------------------------------------------------------------
(* the topics on any page of the listing *)
all_pages == UNION { Range(paginate(listed_topics, page)) : page \in 1 .. Len(topics) }

(* C7: a topic is in the /forum listing, taken over all pages, if and only if
   its is_deleted is false and its owner's is_active is true. *)
C7_ListedIffVisible ==
    \A t \in DOMAIN topics :
        t \in all_pages
          <=> (~topics[t].is_deleted /\ users[topics[t].user_id].is_active)

(* the listing was rendered with one topic soft-deleted and one owned by a
   deactivated user: it holds the remaining topic alone *)
C7_Witness ==
    /\ last.op = "topics"
    /\ Len(topics) = 3
    /\ last.items = <<2>>
    /\ topics[1].is_deleted
    /\ ~topics[3].is_deleted
    /\ topics[3].user_id = 2
    /\ ~users[2].is_active

-----------------------------------------------------------------------------
(* C8: admin_delete_user never changes is_active of the requesting admin's own
   account nor of a user whose is_admin is true: for such a target nothing
   changes and an error is reported; only a different, non-admin target is
   set inactive. *)
C8_AdminsNotDeactivated ==
    [][ last'.op = "admin_delete_user"
        => /\ \A u \in DOMAIN users :
                (u = session[last'.c] \/ users[u].is_admin)
                  => users'[u] = users[u]
           /\ ("user_id" \in DOMAIN last'.form
               /\ last'.form.user_id \in DOMAIN users
               /\ \/ last'.form.user_id = session[last'.c]
                  \/ users[last'.form.user_id].is_admin)
                => /\ db' = db /\ session' = session
                   /\ last'.flashes \in { <<"cannot_delete_self">>,
                                          <<"cannot_delete_admin">> }
           /\ users' # users
                => /\ last'.form.user_id # session[last'.c]
                   /\ ~users[last'.form.user_id].is_admin
                   /\ users' = [users EXCEPT
                                  ![last'.form.user_id].is_active = FALSE] ]_vars

(* an administrator was refused the deletion of the other administrator,
   after a non-admin user had been set inactive *)
C8_Witness ==
    /\ last.op = "admin_delete_user"
    /\ last.flashes = <<"cannot_delete_admin">>
    /\ users[last.form.user_id].is_active
    /\ \E u \in DOMAIN users : ~users[u].is_admin /\ ~users[u].is_active

-----------------------------------------------------------------------------
(* the admin-only POST routes, and the sessions that may use them *)
AdminPosts ==
    {"admin_delete_user", "admin_restore_user",
     "admin_delete_topic", "admin_restore_topic"}

names_active_admin(c) == names_active_user(c) /\ users[session[c]].is_admin

(* C9: a POST to admin_delete_user, admin_restore_user, admin_delete_topic or
   admin_restore_topic from a session whose user is not an admin
   (authenticated or not) is answered with a redirect and leaves every user
   and every topic unchanged, for every target id. *)
C9_NonAdminChangesNothing ==
    [][ (last'.op \in AdminPosts /\ ~names_active_admin(last'.c))
        => /\ last'.status = 302
           /\ users' = users
           /\ topics' = topics ]_vars

(* a logged-in user who is no admin was refused an admin POST while there
   was something to restore *)
C9_Witness ==
    /\ last.op \in AdminPosts
    /\ last.flashes = <<"no_rights">>
    /\ names_active_user(last.c)
    /\ \E t \in DOMAIN topics : topics[t].is_deleted

-----------------------------------------------------------------------------
(* a form field that is missing or empty *)
blank(x) == x \in {None, ""}

(* the step appended exactly one row to the table, and the row belongs to the
   user the client's session named *)
appended_one(table, table_after, c) ==
    /\ Len(table_after) = Len(table) + 1
    /\ SubSeq(table_after, 1, Len(table)) = table
    /\ table_after[Len(table_after)].user_id = session[c]

(* what an authenticated new_topic POST creates *)
new_topic_creates ==
    (last'.op = "new_topic" /\ last'.method = "POST"
                            /\ names_active_user(last'.c))
    => /\ replies' = replies
       /\ IF blank(last'.form.title) \/ blank(last'.form.content)
          THEN topics' = topics /\ attachments' = attachments
          ELSE /\ appended_one(topics, topics', last'.c)
               /\ ~topics'[Len(topics')].is_deleted
               /\ topics'[Len(topics')].views = 0

(* the original statement of C11: an authenticated reply POST with content
   creates exactly one reply, whatever topic id it names *)
C11_Original ==
    [][ /\ new_topic_creates
        /\ (last'.op = "reply" /\ names_active_user(last'.c))
           => /\ topics' = topics
              /\ IF blank(last'.form.content)
                 THEN replies' = replies /\ attachments' = attachments
                 ELSE appended_one(replies, replies', last'.c) ]_vars

(* C11: an authenticated new_topic POST with an empty or missing title or
   content creates no topic and no attachment, and an authenticated reply POST
   with empty or missing content creates no reply and no attachment; with the
   fields filled in, new_topic creates exactly one topic and a reply to an
   existing topic creates exactly one reply, owned by the session's user (the
   topic with is_deleted false and views 0); a reply to a topic id that does
   not exist creates nothing. *)
C11_ValidationGuardsCreation ==
    [][ /\ new_topic_creates
        /\ (last'.op = "reply" /\ names_active_user(last'.c))
           => /\ topics' = topics
              /\ IF blank(last'.form.content)
                       \/ last'.form.topic_id \notin DOMAIN topics
                 THEN replies' = replies /\ attachments' = attachments
                 ELSE /\ appended_one(replies, replies', last'.c)
                      /\ replies'[Len(replies')].topic_id
                             = last'.form.topic_id ]_vars

(* bob replied to the first topic after the topic table had filled up with
   topics made by new_topic *)
C11_Witness ==
    /\ last.op = "reply"
    /\ last.flashes = <<"reply_added">>
    /\ replies[Len(replies)].user_id = 2
    /\ Len(topics) = MaxTopics
    /\ topics[MaxTopics].user_id = 2

-----------------------------------------------------------------------------
(* the tables of `prev`, by name *)
prev_users == prev[1]

prev_topics == prev[2]

(* the step is the answer to the client's own delete_own_account POST with
   the password of user u, the user its session names *)
self_delete_of(u) ==
    /\ last'.op = "delete_own_account"
    /\ last'.method = "POST"
    /\ session[last'.c] = u
    /\ "password" \in DOMAIN last'.form
    /\ check_password(users[u], last'.form.password)

(* the step is the answer to an admin's request `op` for the user u *)
admin_request_for_user(op, u) ==
    /\ last'.op = op
    /\ names_active_admin(last'.c)
    /\ "user_id" \in DOMAIN last'.form
    /\ last'.form.user_id = u

(* C12: a user's is_active goes from true to false only by that user's own
   delete_own_account POST with the correct password or by admin_delete_user
   for that user from an admin, and from false to true only by
   admin_restore_user for that user from an admin; no other request changes
   any user's is_active. *)
C12_ActiveFlagTransitions ==
    [][ \A u \in DOMAIN users :
          /\ (users[u].is_active /\ ~users'[u].is_active)
             => \/ self_delete_of(u)
                \/ admin_request_for_user("admin_delete_user", u)
          /\ (~users[u].is_active /\ users'[u].is_active)
             => admin_request_for_user("admin_restore_user", u) ]_vars

(* the registered user deleted the own account, with the administrator logged
   in at the other client *)
C12_Witness ==
    /\ last.op = "delete_own_account"
    /\ last.flashes = <<"account_deleted">>
    /\ Len(users) = 2
    /\ prev_users[2].is_active
    /\ ~users[2].is_active
    /\ session["c2"] = 1

-----------------------------------------------------------------------------
(* the step is the answer to an admin's request `op` for the topic t *)
admin_request_for_topic(op, t) ==
    /\ last'.op = op
    /\ names_active_admin(last'.c)
    /\ "topic_id" \in DOMAIN last'.form
    /\ last'.form.topic_id = t

(* the topic row is the same topic: everything but the is_deleted flag and
   the view counter is as it was *)
same_topic(row, row_after) ==
    /\ row_after.title = row.title
    /\ row_after.content = row.content
    /\ row_after.user_id = row.user_id

(* the table kept every row it had, unchanged *)
only_grew(table, table_after) ==
    /\ Len(table_after) >= Len(table)
    /\ SubSeq(table_after, 1, Len(table)) = table

(* C13: a topic's is_deleted goes from false to true only by
   admin_delete_topic for that topic from an admin and from true to false
   only by admin_restore_topic for that topic from an admin; no request
   removes a topic, reply or attachment row: every topic stays in the table
   under its id, and the reply and attachment tables only grow. *)
C13_TopicsOnlySoftDeleted ==
    [][ /\ \A t \in DOMAIN topics :
             /\ t \in DOMAIN topics'
             /\ same_topic(topics[t], topics'[t])
             /\ (~topics[t].is_deleted /\ topics'[t].is_deleted)
                => admin_request_for_topic("admin_delete_topic", t)
             /\ (topics[t].is_deleted /\ ~topics'[t].is_deleted)
                => admin_request_for_topic("admin_restore_topic", t)
        /\ only_grew(replies, replies')
        /\ only_grew(attachments, attachments') ]_vars

(* the administrator deleted a topic that the registered user had posted, with
   the reply table full *)
C13_Witness ==
    /\ last.op = "admin_delete_topic"
    /\ last.flashes = <<"topic_deleted">>
    /\ last.form.topic_id = MaxTopics
    /\ Len(prev_topics) = MaxTopics
    /\ topics[MaxTopics].is_deleted
    /\ ~prev_topics[MaxTopics].is_deleted
    /\ topics[MaxTopics].user_id = 2
    /\ Len(replies) = MaxReplies

-----------------------------------------------------------------------------
(* the only stored value the step may have changed is the is_deleted flag of
   topic t, to the value `flag` *)
only_is_deleted(t, flag) ==
    /\ topics' = [topics EXCEPT ![t].is_deleted = flag]
    /\ UNCHANGED <<users, replies, attachments>>

(* the only stored value the step may have changed is the is_active flag of
   user u, to the value `flag` *)
only_is_active(u, flag) ==
    /\ users' = [users EXCEPT ![u].is_active = flag]
    /\ UNCHANGED <<topics, replies, attachments>>

(* a soft delete or a restore writes the one flag of its target, if anything *)
one_flag_written ==
    /\ \A t \in DOMAIN topics :
          /\ admin_request_for_topic("admin_delete_topic", t)
             => only_is_deleted(t, TRUE)
          /\ admin_request_for_topic("admin_restore_topic", t)
             => only_is_deleted(t, FALSE)
    /\ \A u \in DOMAIN users :
          /\ self_delete_of(u) /\ users[u].is_active => only_is_active(u, FALSE)
          /\ admin_request_for_user("admin_delete_user", u)
             => db' = db \/ only_is_active(u, FALSE)
          /\ admin_request_for_user("admin_restore_user", u)
             => only_is_active(u, TRUE)
    /\ last'.op \in AdminPosts \cup {"delete_own_account"}
          => UNCHANGED <<replies, attachments>>

(* the last request was a delete that reached its target, and this step is
   the answer to the restore of the same target *)
restore_follows_delete ==
    \/ /\ last.op = "admin_delete_topic" /\ last.flashes = <<"topic_deleted">>
       /\ last'.op = "admin_restore_topic"
       /\ last'.flashes = <<"topic_restored">>
       /\ last'.form.topic_id = last.form.topic_id
    \/ /\ last.op = "admin_delete_user" /\ last.flashes = <<"user_deleted">>
       /\ last'.op = "admin_restore_user"
       /\ last'.flashes = <<"user_restored">>
       /\ last'.form.user_id = last.form.user_id
    \/ /\ last.op = "delete_own_account" /\ last.flashes = <<"account_deleted">>
       /\ last'.op = "admin_restore_user"
       /\ last'.flashes = <<"user_restored">>
       /\ ~users[last'.form.user_id].is_active
       /\ prev_users[last'.form.user_id].is_active

(* the target of the delete answered last had its flag clear before it *)
deleted_from_clear ==
    \/ /\ last.op = "admin_delete_topic"
       /\ ~prev_topics[last.form.topic_id].is_deleted
    \/ /\ last.op \in {"admin_delete_user", "delete_own_account"}
       /\ prev_users[last'.form.user_id].is_active

(* the original statement of C14: a delete followed by the restore of the
   same target returns the tables to what they were before the delete *)
C14_Original ==
    [][ one_flag_written /\ (restore_follows_delete => db' = prev) ]_vars

(* C14: admin_delete_topic and admin_restore_topic change only the is_deleted
   flag of the target topic; delete_own_account, admin_delete_user and
   admin_restore_user change only the is_active flag of the target user;
   users, topics, replies and attachments are otherwise as they were.  So the
   delete of a topic that was not deleted, or of a user that was active,
   followed by the restore of the same target returns the tables to what
   they were before the delete. *)
C14_SoftDeleteWritesOneFlag ==
    [][ /\ one_flag_written
        /\ (restore_follows_delete /\ deleted_from_clear) => db' = prev ]_vars

(* the administrator restored the first topic right after deleting it, and
   the topic has a reply with an attachment *)
C14_Witness ==
    /\ last.op = "admin_restore_topic"
    /\ last.flashes = <<"topic_restored">>
    /\ last.form.topic_id = 1
    /\ prev_topics[1].is_deleted
    /\ ~topics[1].is_deleted
    /\ \E a \in DOMAIN attachments :
          /\ attachments[a].reply_id \in DOMAIN replies
          /\ replies[attachments[a].reply_id].topic_id = 1

-----------------------------------------------------------------------------
(* the step is the answer to a request that passed its guard and names a
   topic or user id that no row has *)
names_missing_entity ==
    \/ /\ last'.op = "reply"
       /\ names_active_user(last'.c)
       /\ last'.form.topic_id \notin DOMAIN topics
    \/ /\ last'.op \in {"admin_delete_topic", "admin_restore_topic"}
       /\ names_active_admin(last'.c)
       /\ last'.form.topic_id \notin DOMAIN topics
    \/ /\ last'.op \in {"admin_delete_user", "admin_restore_user"}
       /\ names_active_admin(last'.c)
       /\ last'.form.user_id \notin DOMAIN users

(* C15: a reply from an authenticated user to a topic id that does not exist
   (with or without content), and an admin_delete_user, admin_restore_user,
   admin_delete_topic or admin_restore_topic from an admin for an id that
   does not exist, is answered with the not-found status and changes no
   table and no session. *)
C15_MissingEntityNotFound ==
    [][ names_missing_entity
        => /\ last'.status = 404
           /\ db' = db
           /\ session' = session ]_vars

(* a reply without content to a topic id that does not exist was answered
   with not-found *)
C15_Witness ==
    /\ last.op = "reply"
    /\ last.status = 404
    /\ last.form.content = ""
    /\ last.form.topic_id \notin DOMAIN topics
    /\ names_active_user(last.c)

-----------------------------------------------------------------------------
(* the step is the commit of a register request whose username or email was
   taken, by a request that committed first, after its lookups *)
lost_register_race ==
    /\ last'.op = "register"
    /\ inflight[last'.c] # NoRequest
    /\ inflight'[last'.c] = NoRequest
    /\ \/ username_exists(users, last'.form.username)
       \/ email_exists(users, last'.form.email)

(* C16: when two register requests with the same username or email both pass
   their lookups before either commits, the one that commits second creates
   no user and ends as a validation error: the form is rendered again with a
   message, and no row of it stays. *)
C16_RaceLoserGetsMessage ==
    [][ lost_register_race
        => /\ users' = users
           /\ last'.status = 200
           /\ last'.target = "register.html"
           /\ last'.flashes # <<>> ]_vars

-----------------------------------------------------------------------------
(* C17: the home page (GET /) lists no topic whose is_deleted is true and no
   topic whose owner is inactive. *)
C17_HomeListsVisibleOnly ==
    last.op = "index"
    => \A t \in Range(last.items) :
          /\ ~topics[t].is_deleted
          /\ users[topics[t].user_id].is_active

-----------------------------------------------------------------------------
(* the attachment row references a topic and no reply, the topic exists and
   is owned by the attachment's user *)
attached_to_topic(a) ==
    /\ a.reply_id = 0
    /\ a.topic_id \in DOMAIN topics
    /\ topics[a.topic_id].user_id = a.user_id

(* the attachment row references a reply and no topic, the reply exists and
   is owned by the attachment's user *)
attached_to_reply(a) ==
    /\ a.topic_id = 0
    /\ a.reply_id \in DOMAIN replies
    /\ replies[a.reply_id].user_id = a.user_id

attachments_have_one_parent ==
    \A i \in DOMAIN attachments :
        attached_to_topic(attachments[i]) \/ attached_to_reply(attachments[i])

(* the rows the step appended to the attachment table *)
added_attachments ==
    { attachments'[i] : i \in (Len(attachments) + 1)..Len(attachments') }

(* C18: every attachment row references exactly one of a topic and a reply,
   the referenced row exists, and the attachment's user is the owner of that
   topic or reply; attachment rows are written only by the step that writes
   their topic or reply row. *)
C18_AttachmentsHaveOneParent ==
    [][ /\ attachments_have_one_parent'
        /\ attachments' # attachments
           => /\ SubSeq(attachments', 1, Len(attachments)) = attachments
              /\ \/ /\ Len(topics') = Len(topics) + 1
                    /\ replies' = replies
                    /\ \A a \in added_attachments : a.topic_id = Len(topics')
                 \/ /\ Len(replies') = Len(replies) + 1
                    /\ topics' = topics
                    /\ \A a \in added_attachments : a.reply_id = Len(replies') ]_vars

(* the registered user has posted a topic with a file and a reply with a
   file *)
C18_Witness ==
    /\ \E i \in DOMAIN attachments :
          /\ attachments[i].topic_id = MaxTopics
          /\ attachments[i].user_id = 2
    /\ \E i \in DOMAIN attachments :
          /\ attachments[i].reply_id = MaxReplies
          /\ attachments[i].user_id = 2
    /\ attachments_have_one_parent

-----------------------------------------------------------------------------
(* the ids of the admin users of a user table *)
admins(table) == { u \in DOMAIN table : table[u].is_admin }

(* C19: no request changes who is an admin: the users that register creates
   are no admins, no request changes a user's is_admin, and the set of admin
   users is the set of admins the database was seeded with. *)
C19_AdminSetFixed ==
    /\ admins(users) = admins(<<seed_admin>>)
    /\ \A u \in DOMAIN users \ DOMAIN <<seed_admin>> : ~users[u].is_admin

(* the administrator restored the registered user, who is logged in and is
   no admin *)
C19_Witness ==
    /\ Len(users) = 2
    /\ last.op = "admin_restore_user"
    /\ last.flashes = <<"user_restored">>
    /\ last.form.user_id = 2
    /\ session["c1"] = 2
    /\ ~users[2].is_admin

-----------------------------------------------------------------------------
(* the session names a user row, and that row's is_active is false *)
names_inactive_user(c) ==
    session[c] \in DOMAIN users /\ ~users[session[c]].is_active

(* the login form carries the username of an inactive user and that user's
   password *)
credentials_of_inactive_user(form) ==
    /\ "username" \in DOMAIN form
    /\ LET user == first_by_username(users, form.username)
       IN  /\ user # 0
           /\ ~users[user].is_active
           /\ check_password(users[user], form.password)

(* the requests that are behind the authentication guard *)
GuardedOps ==
    AdminPosts \cup {"new_topic", "reply", "delete_own_account", "logout"}

(* C20: an inactive user cannot act.  A login POST with the correct
   credentials of an inactive user establishes no session; a request behind
   the authentication guard from a session whose user has been deactivated is
   redirected to login and changes nothing; so every topic and reply that is
   created has as author a user who is active at that moment, and every
   change that an admin request makes comes from the session of an active
   admin. *)
C20_InactiveUserCannotAct ==
    [][ /\ (last'.op = "login" /\ credentials_of_inactive_user(last'.form))
           => session' = session
        /\ (last'.op \in GuardedOps /\ names_inactive_user(last'.c))
           => /\ last'.status = 302
              /\ last'.target = "login"
              /\ db' = db
        /\ \A t \in DOMAIN topics' \ DOMAIN topics :
              /\ topics'[t].user_id \in DOMAIN users
              /\ users[topics'[t].user_id].is_active
        /\ \A r \in DOMAIN replies' \ DOMAIN replies :
              /\ replies'[r].user_id \in DOMAIN users
              /\ users[replies'[r].user_id].is_active
        /\ (last'.op \in AdminPosts /\ db' # db)
           => names_active_admin(last'.c) ]_vars

(* the registered user, deactivated by the administrator, posted the correct
   credentials to login and got no session *)
C20_Witness ==
    /\ last.op = "login"
    /\ last.form.username = "bob"
    /\ last.form.password = "secret1"
    /\ Len(users) = 2
    /\ ~users[2].is_active
    /\ session[last.c] = 0

====
